---- MODULE Spec2Model ----
(***************************************************************************)
(* A model of the image converter: the raster-to-vector pipeline of        *)
(* services/imageProcessing.ts (palette extraction, pixel classification,  *)
(* marching-squares tracing, smoothing, SVG composition) and the batch     *)
(* queue of the App component.                                             *)
(*                                                                         *)
(* Conventions.  Sequences are 1-based, so pixel p (0-based in the code)   *)
(* is data[p + 1]; palette index c (0-based) is palette[c + 1].  The byte  *)
(* offset i of the RGBA buffer is pixel i / 4.  Contour points lie on      *)
(* half-integer coordinates and are held doubled; path coordinates lie on  *)
(* quarter-integer coordinates and are held multiplied by four.            *)
(***************************************************************************)
EXTENDS Integers, Sequences, FiniteSets, TLC

\* ---------------------------------------------------------------- bounds

MaxW == 3
MaxPixels == 9
MaxK == 3
\* Images of at most this many pixels draw from three colors, larger ones
\* from the first two.
MaxRichPixels == 6
\* Files added and user actions (additions, removals, settings changes,
\* presses of Convert) in one run.
MaxFiles == 3
MaxActions == 4

\* The colors an input pixel may have.
ColorA == [r |-> 0, g |-> 0, b |-> 0]
ColorB == [r |-> 255, g |-> 128, b |-> 1]
ColorC == [r |-> 60, g |-> 200, b |-> 90]

PixelColors(n) ==
  IF n <= MaxRichPixels THEN {ColorA, ColorB, ColorC} ELSE {ColorA, ColorB}

\* The value JavaScript yields for a read past the end of the buffer.
Undefined == [r |-> -1, g |-> -1, b |-> -1]

VARIABLES
  pc,            \* position in processImageClientSide's vector path
  width, height, \* targetWidth, targetHeight
  data,          \* the pixel buffer, one Rgb per pixel
  colorCount,    \* k
  palette,       \* extractPalette's result
  colorIndices,  \* the label map
  cur,           \* c: the palette index the tracing loop is at
  layers,        \* per traced palette index: the contours traceLayer walked
  svg,           \* the document under construction: a sequence of elements
  queue,         \* App: the queue of items
  settings,      \* App: the conversion settings
  batches,       \* App: the processBatch invocations, running and ended
  nextId,        \* App: the number of ids generateId has handed out, plus one
  actions        \* App: the number of user actions so far

vecVars == <<pc, width, height, data, colorCount, palette, colorIndices, cur, layers, svg>>
appVars == <<queue, settings, batches, nextId, actions>>
vars == <<vecVars, appVars>>

\* ------------------------------------------------- color helpers (26-45)

getPixelColor(d, p) == IF p + 1 \in DOMAIN d THEN d[p + 1] ELSE Undefined

Sq(n) == n * n

\* colorDistance is the square root of this sum; the code only compares
\* distances, and the square root is strictly increasing and exact enough on
\* integers below 2^18 that the comparisons agree with those of the squares.
colorDistance(c1, c2) == Sq(c1.r - c2.r) + Sq(c1.g - c2.g) + Sq(c1.b - c2.b)

\* Larger than every distance: stands for Infinity.
Infinity == 3 * 255 * 255 + 1

HexDigits == <<"0","1","2","3","4","5","6","7","8","9","a","b","c","d","e","f">>

\* ((1 << 24) + (r << 16) + (g << 8) + b).toString(16).slice(1)
rgbToHex(col) ==
  LET n == 16777216 + col.r * 65536 + col.g * 256 + col.b
      digit(k) == HexDigits[((n \div (16 ^ k)) % 16) + 1]
  IN <<"#", digit(5), digit(4), digit(3), digit(2), digit(1), digit(0)>>

\* ------------------------------------------------ extractPalette (48-92)

Iterations == 5
SampleStride == 4

\* Lines 51-54: centroid i starts as the pixel at index i * floor(pixelCount / k).
initialCentroids(d, pixelCount, k) ==
  LET step == pixelCount \div k
  IN [i \in 1..k |-> getPixelColor(d, (i - 1) * step)]

\* Lines 63-72: scan the centroids in index order; a strictly smaller distance
\* replaces the current best, so the lowest index of minimum distance wins.
RECURSIVE closestFrom(_, _, _, _, _)
closestFrom(p, cents, j, minDist, closestIndex) ==
  IF j >= Len(cents) THEN closestIndex
  ELSE LET dist == colorDistance(p, cents[j + 1])
       IN IF dist < minDist
            THEN closestFrom(p, cents, j + 1, dist, j)
            ELSE closestFrom(p, cents, j + 1, minDist, closestIndex)

\* Mutant of closestCentroid: among the centroids of minimum distance the
\* highest index wins (the comparison is <= instead of <).
closestCentroid_lastWins(p, cents) ==
  LET best == { j \in 1..Len(cents) :
                  \A m \in 1..Len(cents) :
                    colorDistance(p, cents[j]) <= colorDistance(p, cents[m]) }
  IN (CHOOSE j \in best : \A m \in best : m <= j) - 1

closestCentroid(p, cents) == closestFrom(p, cents, 0, Infinity, 0)

\* Lines 58-78: every fourth pixel (byte stride 16) adds to its centroid's sums.
RECURSIVE accumulate(_, _, _, _)
accumulate(d, cents, i, sums) ==
  IF i >= Len(d) THEN sums
  ELSE LET p == getPixelColor(d, i)
           j == closestCentroid(p, cents) + 1
       IN accumulate(d, cents, i + SampleStride,
            [sums EXCEPT ![j] = [r |-> @.r + p.r, g |-> @.g + p.g,
                                 b |-> @.b + p.b, count |-> @.count + 1]])

\* Mutant of updateCentroids: an empty cluster is removed instead of kept.
RECURSIVE dropEmptyFrom(_, _)
dropEmptyFrom(sums, j) ==
  IF j > Len(sums) THEN << >>
  ELSE (IF sums[j].count > 0
          THEN <<[r |-> sums[j].r \div sums[j].count,
                  g |-> sums[j].g \div sums[j].count,
                  b |-> sums[j].b \div sums[j].count]>>
          ELSE << >>) \o dropEmptyFrom(sums, j + 1)

updateCentroids_dropEmpty(cents, sums) == dropEmptyFrom(sums, 1)

\* Lines 81-89: a centroid with samples becomes their floored mean; one
\* without keeps its value.
updateCentroids(cents, sums) ==
  [j \in 1..Len(cents) |->
     IF sums[j].count > 0
       THEN [r |-> sums[j].r \div sums[j].count,
             g |-> sums[j].g \div sums[j].count,
             b |-> sums[j].b \div sums[j].count]
       ELSE cents[j]]

iteration(d, cents) ==
  updateCentroids(cents,
    accumulate(d, cents, 0,
      [j \in 1..Len(cents) |-> [r |-> 0, g |-> 0, b |-> 0, count |-> 0]]))

RECURSIVE iterate(_, _, _)
iterate(d, cents, iter) ==
  IF iter >= Iterations THEN cents ELSE iterate(d, iteration(d, cents), iter + 1)

extractPalette(d, pixelCount, k) ==
  iterate(d, initialCentroids(d, pixelCount, k), 0)

\* The centroids at the end of iteration t of the loop at line 57 (t = 0: as
\* initialized).
RECURSIVE centroidsAfter(_, _, _, _)
centroidsAfter(d, pixelCount, k, t) ==
  IF t = 0 THEN initialCentroids(d, pixelCount, k)
  ELSE iteration(d, centroidsAfter(d, pixelCount, k, t - 1))

\* --------------------------------------- pixel classification (295-306)

\* Lines 299-304: the same scan over the palette.
RECURSIVE closestPaletteFrom(_, _, _, _, _)
closestPaletteFrom(p, pal, k, min, closest) ==
  IF k >= Len(pal) THEN closest
  ELSE LET dd == colorDistance(p, pal[k + 1])
       IN IF dd < min
            THEN closestPaletteFrom(p, pal, k + 1, dd, k)
            ELSE closestPaletteFrom(p, pal, k + 1, min, closest)

\* Mutant of classifyPixel: among the palette entries of minimum distance the
\* highest index wins (the comparison is <= instead of <).
classifyPixel_lastWins(p, pal) ==
  LET best == { k \in 1..Len(pal) :
                  \A m \in 1..Len(pal) :
                    colorDistance(p, pal[k]) <= colorDistance(p, pal[m]) }
  IN (CHOOSE k \in best : \A m \in best : m <= k) - 1

\* Mutant of classifyPixel: the running minimum starts at 0, not Infinity.
classifyPixel_minZero(p, pal) == closestPaletteFrom(p, pal, 0, 0, 0)

classifyPixel(p, pal) == closestPaletteFrom(p, pal, 0, Infinity, 0)

\* Lines 296-306: one Uint8Array entry per pixel.
classify(d, pal) == [i \in 1..Len(d) |-> classifyPixel(d[i], pal) % 256]

\* ------------------------------------------------- traceLayer (94-245)

\* Mutant of LINE_LOOKUP: the segment of case 7 runs the other way.
LINE_LOOKUP_case7Reversed ==
  << << >>,
     << <<3, 2>> >>,
     << <<2, 1>> >>,
     << <<3, 1>> >>,
     << <<1, 0>> >>,
     << <<0, 3>>, <<1, 2>> >>,
     << <<2, 0>> >>,
     << <<0, 3>> >>,
     << <<0, 3>> >>,
     << <<0, 2>> >>,
     << <<0, 1>>, <<3, 2>> >>,
     << <<0, 1>> >>,
     << <<1, 3>> >>,
     << <<1, 2>> >>,
     << <<2, 3>> >>,
     << >> >>

\* [startEdge, endEdge] per marching-squares case; edges 0 top, 1 right,
\* 2 bottom, 3 left.  LINE_LOOKUP[idx + 1] is the code's LINE_LOOKUP[idx].
LINE_LOOKUP ==
  << << >>,
     << <<3, 2>> >>,
     << <<2, 1>> >>,
     << <<3, 1>> >>,
     << <<1, 0>> >>,
     << <<0, 3>>, <<1, 2>> >>,
     << <<2, 0>> >>,
     << <<3, 0>> >>,
     << <<0, 3>> >>,
     << <<0, 2>> >>,
     << <<0, 1>>, <<3, 2>> >>,
     << <<0, 1>> >>,
     << <<1, 3>> >>,
     << <<1, 2>> >>,
     << <<2, 3>> >>,
     << >> >>

\* Mutant of isColor: the bounds test is off by one column.
isColor_offByOne(ci, w, h, x, y, col) ==
  IF x < 0 \/ y < 0 \/ x >= w - 1 \/ y >= h THEN FALSE
  ELSE ci[y * w + x + 1] = col

\* Lines 319-322: the pixel at (x, y) carries palette index col.
isColor(ci, w, h, x, y, col) ==
  IF x < 0 \/ y < 0 \/ x >= w \/ y >= h THEN FALSE
  ELSE ci[y * w + x + 1] = col

\* Lines 147-151 (and 186-190): bit weights 8 4 / 1 2.
squareIndex(ci, w, h, x, y, col) ==
    (IF isColor(ci, w, h, x, y + 1, col) THEN 1 ELSE 0)
  + (IF isColor(ci, w, h, x + 1, y + 1, col) THEN 2 ELSE 0)
  + (IF isColor(ci, w, h, x + 1, y, col) THEN 4 ELSE 0)
  + (IF isColor(ci, w, h, x, y, col) THEN 8 ELSE 0)

\* Mutant of getEdgePos: the top edge yields the cell's corner instead of the
\* middle of the edge.
getEdgePos_topAtCorner(x, y, edge) ==
  CASE edge = 0 -> <<2 * x, 2 * y>>
    [] edge = 1 -> <<2 * x + 2, 2 * y + 1>>
    [] edge = 2 -> <<2 * x + 1, 2 * y + 2>>
    [] edge = 3 -> <<2 * x, 2 * y + 1>>
    [] OTHER -> <<2 * x, 2 * y>>

\* Lines 128-136, coordinates doubled.
getEdgePos(x, y, edge) ==
  CASE edge = 0 -> <<2 * x + 1, 2 * y>>
    [] edge = 1 -> <<2 * x + 2, 2 * y + 1>>
    [] edge = 2 -> <<2 * x + 1, 2 * y + 2>>
    [] edge = 3 -> <<2 * x, 2 * y + 1>>
    [] OTHER -> <<2 * x, 2 * y>>

\* Mutant of maxSteps: the budget is the width alone.
maxSteps_width(w, h) == w

\* Mutant of maxSteps: the budget is the longer side of the image.
maxSteps_longerSide(w, h) == IF w > h THEN w ELSE h

\* Line 168.
maxSteps(w, h) == w * h

\* Line 199: the first segment whose entry edge is the arrival edge, or << >>
\* (undefined) when there is none.
findSegment(nextLines, arrivalEdge) ==
  LET hits == { i \in 1..Len(nextLines) : nextLines[i][1] = arrivalEdge }
  IN IF hits = {} THEN << >>
     ELSE nextLines[CHOOSE i \in hits : \A j \in hits : i <= j]

\* Lines 178-181.
moveX(x, nextEdge) == IF nextEdge = 1 THEN x + 1 ELSE IF nextEdge = 3 THEN x - 1 ELSE x
moveY(y, nextEdge) == IF nextEdge = 0 THEN y - 1 ELSE IF nextEdge = 2 THEN y + 1 ELSE y

\* Line 184: the cell lies outside [0, width - 1) x [0, height - 1).
outsideGrid(w, h, x, y) == x < 0 \/ x >= w - 1 \/ y < 0 \/ y >= h - 1

\* Lines 173-211: the walk loop.  seed is the starting cell (x, y) with
\* lines[0][0]; st holds currX, currY, startEdge, nextEdge,
\* steps, points and, for the record, the cells added to visited, the
\* (cell, entry, exit) segments traversed, the edge through which the current
\* cell was entered (arrival) and the exit the loop took (end).
RECURSIVE walk(_, _, _, _, _, _)
walk(ci, w, h, col, seed, st) ==
  IF ~(st.steps < maxSteps(w, h)) THEN [st EXCEPT !.end = "budget"]
  ELSE
    LET pts == Append(st.points, getEdgePos(st.x, st.y, st.nextEdge))
        cells == st.cells \cup {<<st.x, st.y>>}
        segs == Append(st.segs, <<st.x, st.y, st.startEdge, st.nextEdge>>)
        nx == moveX(st.x, st.nextEdge)
        ny == moveY(st.y, st.nextEdge)
        moved == [st EXCEPT !.points = pts, !.cells = cells, !.segs = segs,
                            !.x = nx, !.y = ny,
                            !.arrival = (st.nextEdge + 2) % 4]
    IN IF outsideGrid(w, h, nx, ny) THEN [moved EXCEPT !.end = "outside"]
       ELSE
         LET nIdx == squareIndex(ci, w, h, nx, ny, col)
         IN IF nIdx = 0 \/ nIdx = 15 THEN [moved EXCEPT !.end = "flat"]
            ELSE
              LET segment == findSegment(LINE_LOOKUP[nIdx + 1], moved.arrival)
              IN IF segment = << >> THEN [moved EXCEPT !.end = "miss"]
                 ELSE
                   LET turned == [moved EXCEPT !.startEdge = segment[1],
                                               !.nextEdge = segment[2]]
                   IN IF nx = seed.x /\ ny = seed.y /\ segment[1] = seed.entry
                        THEN [turned EXCEPT !.end = "closed"]
                        ELSE walk(ci, w, h, col, seed,
                                  [turned EXCEPT !.steps = @ + 1])

\* Mutant of smoothPath: the curve back to the first point is left out.
smoothPath_open(points) ==
  IF Len(points) > 2
    THEN LET len == Len(points)
         IN <<[op |-> "M", args |-> <<points[len][1] + points[1][1],
                                      points[len][2] + points[1][2]>>]>>
            \o [i \in 1..(len - 1) |->
                  [op |-> "Q",
                   args |-> <<2 * points[i][1], 2 * points[i][2],
                              points[i][1] + points[i + 1][1],
                              points[i][2] + points[i + 1][2]>>]]
            \o <<[op |-> "Z", args |-> << >>]>>
    ELSE << >>

\* Mutant of smoothPath: the path starts at the first point, not at the
\* midpoint between the last and the first.
smoothPath_startAtFirst(points) ==
  IF Len(points) > 2
    THEN LET len == Len(points)
         IN <<[op |-> "M", args |-> <<2 * points[1][1], 2 * points[1][2]>>]>>
            \o [i \in 1..len |->
                  [op |-> "Q",
                   args |-> <<2 * points[i][1], 2 * points[i][2],
                              points[i][1] + points[(i % len) + 1][1],
                              points[i][2] + points[(i % len) + 1][2]>>]]
            \o <<[op |-> "Z", args |-> << >>]>>
    ELSE << >>

\* Lines 214-240: quadratic smoothing; coordinates multiplied by four.
smoothPath(points) ==
  IF Len(points) > 2
    THEN LET len == Len(points)
             lastP == points[len]
             firstP == points[1]
             curve(i) ==
               LET curr == points[i]
                   next == points[(i % len) + 1]
               IN [op |-> "Q",
                   args |-> <<2 * curr[1], 2 * curr[2],
                              curr[1] + next[1], curr[2] + next[2]>>]
         IN <<[op |-> "M", args |-> <<lastP[1] + firstP[1], lastP[2] + firstP[2]>>]>>
            \o [i \in 1..len |-> curve(i)]
            \o <<[op |-> "Z", args |-> << >>]>>
    ELSE << >>

\* Mutant of contourAt: a walk that ends on a segment miss is thrown away
\* instead of being finalized.
contourAt_dropOnMiss(ci, w, h, col, x, y, idx) ==
  LET lines == LINE_LOOKUP[idx + 1]
      fin == walk(ci, w, h, col, [x |-> x, y |-> y, entry |-> lines[1][1]],
                  [x |-> x, y |-> y,
                   startEdge |-> lines[1][1], nextEdge |-> lines[1][2],
                   steps |-> 0,
                   points |-> <<getEdgePos(x, y, lines[1][1])>>,
                   cells |-> {}, segs |-> << >>, arrival |-> -1,
                   end |-> "walking"])
  IN [seed |-> <<x, y>>, entry |-> lines[1][1], points |-> fin.points,
      cells |-> fin.cells, segs |-> fin.segs, end |-> fin.end,
      steps |-> fin.steps, last |-> <<fin.x, fin.y>>,
      arrival |-> fin.arrival,
      path |-> IF fin.end = "miss" THEN << >> ELSE smoothPath(fin.points)]

\* Lines 156-241: the contour seeded at cell (x, y), whose case is idx.
contourAt(ci, w, h, col, x, y, idx) ==
  LET lines == LINE_LOOKUP[idx + 1]
      fin == walk(ci, w, h, col, [x |-> x, y |-> y, entry |-> lines[1][1]],
                  [x |-> x, y |-> y,
                   startEdge |-> lines[1][1], nextEdge |-> lines[1][2],
                   steps |-> 0,
                   points |-> <<getEdgePos(x, y, lines[1][1])>>,
                   cells |-> {}, segs |-> << >>, arrival |-> -1,
                   end |-> "walking"])
  IN [seed |-> <<x, y>>, entry |-> lines[1][1], points |-> fin.points,
      cells |-> fin.cells, segs |-> fin.segs, end |-> fin.end,
      steps |-> fin.steps, last |-> <<fin.x, fin.y>>,
      arrival |-> fin.arrival,
      path |-> smoothPath(fin.points)]

\* Mutant of scan: the visited set is not consulted when a seed is chosen.
RECURSIVE scan_ignoreVisited(_, _, _, _, _, _)
scan_ignoreVisited(ci, w, h, col, n, acc) ==
  IF w < 2 \/ n >= (w - 1) * (h - 1) THEN acc
  ELSE
    LET x == n % (w - 1)
        y == n \div (w - 1)
        idx == squareIndex(ci, w, h, x, y, col)
    IN IF idx = 0 \/ idx = 15 THEN scan_ignoreVisited(ci, w, h, col, n + 1, acc)
       ELSE LET ct == contourAt(ci, w, h, col, x, y, idx)
            IN scan_ignoreVisited(ci, w, h, col, n + 1,
                    [visited |-> acc.visited \cup ct.cells,
                     contours |-> Append(acc.contours, ct),
                     pathData |-> acc.pathData \o ct.path])

\* Lines 139-243: the seed scan, cell n = y * (width - 1) + x in row order.
\* acc holds the visited set, the contours walked so far and pathData.
RECURSIVE scan(_, _, _, _, _, _)
scan(ci, w, h, col, n, acc) ==
  IF w < 2 \/ n >= (w - 1) * (h - 1) THEN acc
  ELSE
    LET x == n % (w - 1)
        y == n \div (w - 1)
        idx == squareIndex(ci, w, h, x, y, col)
    IN IF <<x, y>> \in acc.visited THEN scan(ci, w, h, col, n + 1, acc)
       ELSE IF idx = 0 \/ idx = 15 THEN scan(ci, w, h, col, n + 1, acc)
       ELSE IF Len(LINE_LOOKUP[idx + 1]) > 0
         THEN LET ct == contourAt(ci, w, h, col, x, y, idx)
              IN scan(ci, w, h, col, n + 1,
                      [visited |-> acc.visited \cup ct.cells,
                       contours |-> Append(acc.contours, ct),
                       pathData |-> acc.pathData \o ct.path])
         ELSE scan(ci, w, h, col, n + 1, acc)

traceLayer(ci, w, h, col) ==
  scan(ci, w, h, col, 0, [visited |-> {}, contours |-> << >>, pathData |-> << >>])

\* ------------------------------------------------ the App's state (29-46)

\* result: undefined.
NoResult == [none |-> TRUE]

\* Lines 39-46.
InitialSettings ==
  [format |-> "image/jpeg", quality |-> 7, resizeRatio |-> 10,
   useAIAnalysis |-> FALSE, isVector |-> FALSE, colorCount |-> 16]

\* The values the controls are moved to: one of the raster format buttons, one
\* position of the quality slider (in tenths) and one of the color slider.
\* image/jpeg and 16 colors come back with toggleMode.
RasterFormats == {"image/png"}
Qualities == {5}
ColorCounts == {2}

AppIdle ==
  /\ queue = << >>
  /\ settings = InitialSettings
  /\ batches = << >>
  /\ nextId = 1
  /\ actions = 0

VecIdle ==
  /\ pc = "idle"
  /\ width = 0 /\ height = 0
  /\ data = << >>
  /\ colorCount = 0
  /\ palette = << >>
  /\ colorIndices = << >>
  /\ cur = 0
  /\ layers = << >>
  /\ svg = << >>

\* ------------------------- processImageClientSide, vector path (288-333)

Init ==
  /\ pc = "loaded"
  /\ width \in 1..MaxW
  /\ height \in 1..(MaxPixels \div width)
  /\ data \in [1..(width * height) -> PixelColors(width * height)]
  /\ colorCount \in 2..MaxK
  /\ palette = << >>
  /\ colorIndices = << >>
  /\ cur = 0
  /\ layers = << >>
  /\ svg = << >>
  /\ AppIdle

\* Line 293.
ExtractPalette ==
  /\ pc = "loaded"
  /\ palette' = extractPalette(data, width * height, colorCount)
  /\ pc' = "palette"
  /\ UNCHANGED <<width, height, data, colorCount, colorIndices, cur, layers, svg>>
  /\ UNCHANGED appVars

\* Lines 296-306.
ClassifyPixels ==
  /\ pc = "palette"
  /\ colorIndices' = classify(data, palette)
  /\ pc' = "classified"
  /\ UNCHANGED <<width, height, data, colorCount, palette, cur, layers, svg>>
  /\ UNCHANGED appVars

\* Lines 309-312: the document opens with the background rectangle.
BeginSvg ==
  /\ pc = "classified"
  /\ svg' = << [tag |-> "svg", viewBox |-> <<0, 0, width, height>>],
               [tag |-> "rect", fill |-> rgbToHex(palette[1])] >>
  /\ cur' = 0
  /\ pc' = "tracing"
  /\ UNCHANGED <<width, height, data, colorCount, palette, colorIndices, layers>>
  /\ UNCHANGED appVars

\* Lines 315-328: one pass of the loop over the palette.  index records the
\* loop variable c the element was emitted for.
pathElement(pal, col, d) ==
  [tag |-> "path", d |-> d, fill |-> rgbToHex(pal[col + 1]), index |-> col]

\* Mutant of emitLayer: the element is emitted also for empty path data.
emitLayer_always(doc, pal, col, d) == Append(doc, pathElement(pal, col, d))

emitLayer(doc, pal, col, d) ==
  IF Len(d) > 0 THEN Append(doc, pathElement(pal, col, d)) ELSE doc

TraceColor ==
  /\ pc = "tracing"
  /\ cur < Len(palette)
  /\ LET t == traceLayer(colorIndices, width, height, cur)
     IN /\ layers' = Append(layers, t.contours)
        /\ svg' = emitLayer(svg, palette, cur, t.pathData)
  /\ cur' = cur + 1
  /\ UNCHANGED <<pc, width, height, data, colorCount, palette, colorIndices>>
  /\ UNCHANGED appVars

\* Lines 330-332.
ResolveSvg ==
  /\ pc = "tracing"
  /\ cur >= Len(palette)
  /\ svg' = Append(svg, [tag |-> "/svg"])
  /\ pc' = "resolved"
  /\ UNCHANGED <<width, height, data, colorCount, palette, colorIndices, cur, layers>>
  /\ UNCHANGED appVars

Next ==
  \/ ExtractPalette
  \/ ClassifyPixels
  \/ BeginSvg
  \/ TraceColor
  \/ ResolveSvg

Spec == Init /\ [][Next]_vars

\* ------------------------------------------ properties of the pipeline

Stages == {"loaded", "palette", "classified", "tracing", "resolved"}

IsRgb(col) == col.r \in 0..255 /\ col.g \in 0..255 /\ col.b \in 0..255

\* The contours walked for palette index col (traced once cur > col).
ContoursOf(col) == { layers[col + 1][j] : j \in 1..Len(layers[col + 1]) }

Traced == 0..(Len(layers) - 1)

\* The label of pixel (x, y).
LabelAt(x, y) == colorIndices[y * width + x + 1]

\* The labels at the four pixels of cell (x, y).
CellLabels(x, y) == { LabelAt(x, y), LabelAt(x + 1, y), LabelAt(x, y + 1), LabelAt(x + 1, y + 1) }

InGrid(x, y) == x \in 0..(width - 2) /\ y \in 0..(height - 2)

\* Cell (x, y) is case 0 or case 15 for col: none or all of its pixels carry col.
FlatFor(x, y, col) == CellLabels(x, y) = {col} \/ col \notin CellLabels(x, y)

PathElements == { i \in 1..Len(svg) : svg[i].tag = "path" }
RectElements == { i \in 1..Len(svg) : svg[i].tag = "rect" }

C2_LabelsAreNearest ==
  pc \in {"classified", "tracing", "resolved"} =>
    /\ Len(colorIndices) = width * height
    /\ \A i \in 1..Len(colorIndices) :
         /\ colorIndices[i] \in 0..(colorCount - 1)
         /\ \A j \in 1..Len(palette) :
              colorDistance(data[i], palette[colorIndices[i] + 1])
                <= colorDistance(data[i], palette[j])

\* A label map with two labels, one of them chosen for a pixel whose color is
\* not in the palette, and not the first palette entry.
C2_Witness ==
  /\ pc = "classified"
  /\ \E i, j \in 1..Len(colorIndices) : colorIndices[i] # colorIndices[j]
  /\ \E i \in 1..Len(colorIndices) :
       /\ colorIndices[i] > 0
       /\ palette[colorIndices[i] + 1] # data[i]

\* C3: a 2x2 image of two colors split diagonally, converted with k = 2,
\* yields a palette of size 2, a label map with both labels and a non-empty
\* path for each of the two labels.
C3_DiagonalTwoByTwo ==
  ( /\ pc = "resolved"
    /\ width = 2 /\ height = 2 /\ colorCount = 2
    /\ data[1] = data[4] /\ data[2] = data[3] /\ data[1] # data[2] )
  => /\ Len(palette) = 2
     /\ { colorIndices[i] : i \in 1..4 } = {0, 1}
     /\ \A col \in {0, 1} :
          \E i \in PathElements : svg[i].index = col /\ Len(svg[i].d) > 0

\* C4: no contour is seeded at, and no contour point is taken from, a cell
\* whose four pixels all carry the color or all do not; and a uniform image
\* yields no contour for any palette index and a document that holds only the
\* background rectangle, filled with the image's color.
C4_FlatCellsYieldNothing ==
  /\ \A col \in Traced : \A ct \in ContoursOf(col) :
       /\ InGrid(ct.seed[1], ct.seed[2])
       /\ ~FlatFor(ct.seed[1], ct.seed[2], col)
       /\ \A s \in 1..Len(ct.segs) :
            /\ InGrid(ct.segs[s][1], ct.segs[s][2])
            /\ ~FlatFor(ct.segs[s][1], ct.segs[s][2], col)
       /\ Len(ct.points) = Len(ct.segs) + 1
  /\ (pc = "resolved" /\ \A i \in 1..Len(data) : data[i] = data[1]) =>
       /\ Len(layers) = colorCount
       /\ \A col \in Traced : layers[col + 1] = << >>
       /\ svg = << [tag |-> "svg", viewBox |-> <<0, 0, width, height>>],
                   [tag |-> "rect", fill |-> rgbToHex(data[1])],
                   [tag |-> "/svg"] >>

\* A uniform image with cells, converted.
C4_Witness ==
  /\ pc = "resolved"
  /\ width >= 2 /\ height >= 2
  /\ \A i \in 1..Len(data) : data[i] = data[1]
  /\ Len(svg) = 3

\* C5: a contour has path data iff it has at least 3 points, and then the
\* path is one M, one Q per point, one Z, in that order.
C5_PathShape ==
  \A col \in Traced : \A ct \in ContoursOf(col) :
    /\ (ct.path # << >>) <=> (Len(ct.points) >= 3)
    /\ ct.path # << >> =>
         /\ Len(ct.path) = Len(ct.points) + 2
         /\ ct.path[1].op = "M"
         /\ ct.path[Len(ct.path)].op = "Z"
         /\ \A i \in 2..(Len(ct.path) - 1) : ct.path[i].op = "Q"

\* A contour with path data and, in the same layer, one without.
C5_Witness ==
  \E col \in Traced : \E a, b \in ContoursOf(col) :
    /\ Len(a.points) >= 3 /\ a.path # << >>
    /\ Len(b.points) < 3 /\ b.path = << >>

\* C6: the document holds exactly one background rectangle, filled with
\* palette entry 0 and placed before every path; the path elements follow in
\* strictly ascending palette-index order, at most one per index, none with
\* empty path data; a traced index has an element iff its path data is not
\* empty.
C6_DocumentLayout ==
  pc \in {"tracing", "resolved"} =>
    /\ RectElements = {2}
    /\ svg[2].fill = rgbToHex(palette[1])
    /\ svg[1].tag = "svg"
    /\ \A i \in PathElements :
         /\ i > 2
         /\ svg[i].index \in Traced
         /\ Len(svg[i].d) > 0
         /\ svg[i].fill = rgbToHex(palette[svg[i].index + 1])
    /\ \A i, j \in PathElements : i < j => svg[i].index < svg[j].index
    /\ \A col \in Traced :
         (\E i \in PathElements : svg[i].index = col)
           <=> (\E ct \in ContoursOf(col) : ct.path # << >>)
    /\ \A i \in PathElements :
         \E ct \in ContoursOf(svg[i].index) : ct.path # << >>

\* A finished document with two path elements and a palette index without one.
C6_Witness ==
  /\ pc = "resolved"
  /\ Cardinality(PathElements) = 2
  /\ Cardinality(PathElements) < colorCount

\* How a walk can have ended, read off its final cell, arrival edge and step
\* count.
EndClosed(ct) == ct.last = ct.seed /\ ct.arrival = ct.entry
EndBudget(ct) == ct.steps = width * height
EndOutside(ct) == ~InGrid(ct.last[1], ct.last[2])
EndFlat(ct, col) ==
  InGrid(ct.last[1], ct.last[2]) /\ FlatFor(ct.last[1], ct.last[2], col)
EndMiss(ct, col) ==
  /\ InGrid(ct.last[1], ct.last[2])
  /\ ~FlatFor(ct.last[1], ct.last[2], col)
  /\ LET lines == LINE_LOOKUP[squareIndex(colorIndices, width, height,
                                          ct.last[1], ct.last[2], col) + 1]
     IN \A i \in 1..Len(lines) : lines[i][1] # ct.arrival

SegsOf(ct) == { ct.segs[s] : s \in 1..Len(ct.segs) }

\* C8: no two contours emitted for one color traverse the same boundary
\* segment (same cell, entry edge and exit edge).
C8_ContoursDisjoint ==
  \A col \in Traced :
    \A i, j \in 1..Len(layers[col + 1]) :
      (i < j /\ layers[col + 1][i].path # << >> /\ layers[col + 1][j].path # << >>)
        => SegsOf(layers[col + 1][i]) \cap SegsOf(layers[col + 1][j]) = {}

\* ------------------------------------------------------ the App (29-224)
\* The queue holds records of id, status and result; an item's file, preview
\* URL, size and error text are not read by any handler and are left out.
\* A batch is one invocation of processBatch: the items and the settings its
\* closure captured, the index of the item it is at and what it awaits.  clean
\* and log are for the record: whether nothing but the batch itself and
\* handleFiles has written the queue since the batch began, and, while that
\* is so, the outcome the batch wrote per item.

\* Lines 35-37.
isProcessing == \E i \in 1..Len(queue) : queue[i].status = "PROCESSING"
everyComplete == \A i \in 1..Len(queue) : queue[i].status = "COMPLETE"
isAllComplete == Len(queue) > 0 /\ everyComplete

\* Lines 59-67: generateId is taken to hand out fresh ids.
newItems(n) == [k \in 1..n |-> [id |-> nextId + k - 1, status |-> "IDLE", result |-> NoResult]]

\* Mutant of resetItems: only completed items are reset.
resetItems_completedOnly(q) ==
  [i \in 1..Len(q) |->
     IF q[i].status = "COMPLETE"
       THEN [q[i] EXCEPT !.status = "IDLE", !.result = NoResult]
       ELSE q[i]]

\* Lines 219-223, 478, 504, 536, 550: every item back to IDLE, result cleared.
resetItems(q) ==
  [i \in 1..Len(q) |-> [q[i] EXCEPT !.status = "IDLE", !.result = NoResult]]

\* Line 88.
withoutItem(q, id) ==
  LET keep(it) == it.id # id IN SelectSeq(q, keep)

\* Mutant of itemsToProcess: only IDLE items are selected.
itemsToProcess_idleOnly(q) ==
  LET todo(it) == it.status = "IDLE" IN SelectSeq(q, todo)

\* Line 102.
itemsToProcess(q) ==
  LET todo(it) == it.status = "IDLE" \/ it.status = "ERROR" IN SelectSeq(q, todo)

\* Lines 107-111.
markProcessing(q, todo) ==
  [i \in 1..Len(q) |->
     IF \E k \in 1..Len(todo) : todo[k].id = q[i].id
       THEN [q[i] EXCEPT !.status = "PROCESSING"]
       ELSE q[i]]

\* Line 149.
markComplete(q, id, result) ==
  [i \in 1..Len(q) |->
     IF q[i].id = id THEN [q[i] EXCEPT !.status = "COMPLETE", !.result = result]
     ELSE q[i]]

\* Line 153.
markError(q, id) ==
  [i \in 1..Len(q) |->
     IF q[i].id = id THEN [q[i] EXCEPT !.status = "ERROR"] ELSE q[i]]

\* Lines 117-124: the blob is identified by the file and the arguments of
\* processImageClientSide.
blobOf(id, st) ==
  [file |-> id, format |-> st.format, quality |-> st.quality,
   scale |-> st.resizeRatio, isVector |-> st.isVector,
   colorCount |-> st.colorCount]

\* Lines 127-128: aiDesc and aiTags when the annotation step is not taken.
NoAnnotation == [outcome |-> "off", desc |-> "", tags |-> << >>]

\* Lines 141-147.  annotation is for the record: how the annotation step went
\* ("off" when AI analysis was not enabled).
resultOf(blob, an) ==
  [blob |-> blob, aiDescription |-> an.desc, aiTags |-> an.tags,
   annotation |-> an.outcome]

\* Line 115: the for loop moves to the next item, or ends.
\* When the loop ends the invocation returns and its closure is gone: the
\* captured settings are dropped from the record.
nextItem(bt) ==
  IF bt.idx < Len(bt.items)
    THEN [bt EXCEPT !.idx = @ + 1, !.phase = "convert", !.blob = NoResult]
    ELSE [bt EXCEPT !.phase = "done", !.blob = NoResult, !.settings = NoResult]

\* The record of what the batch wrote for the item it is at, kept while the
\* batch is undisturbed.
logged(bt, ok) ==
  IF bt.clean
    THEN [bt EXCEPT !.log = Append(@, [id |-> bt.items[bt.idx], ok |-> ok])]
    ELSE bt

\* Mutant of afterReject: the rejection leaves the loop.
afterReject_abort(bt) ==
  [logged(bt, FALSE) EXCEPT !.phase = "done", !.blob = NoResult, !.settings = NoResult]

\* Lines 151-154: the catch block ends the iteration, not the loop.
afterReject(bt) ==
  nextItem(logged(bt, FALSE))

\* Lines 149-150.
afterComplete(bt) ==
  nextItem(logged(bt, TRUE))

\* Another handler has written the queue: no batch is undisturbed any more,
\* and the record of an invocation that has returned is dropped.
disturbed(bs) ==
  LET live(bt) == bt.phase # "done"
      rest == SelectSeq(bs, live)
  IN [b \in 1..Len(rest) |-> [rest[b] EXCEPT !.clean = FALSE, !.log = << >>]]

\* Batch b has written the queue and become bt: every other batch is disturbed.
settled(bs, b, bt) ==
  LET kept(i) == i = b \/ bs[i].phase # "done"
      at == SelectSeq([i \in 1..Len(bs) |-> i], kept)
  IN [k \in 1..Len(at) |->
        IF at[k] = b THEN bt ELSE [bs[at[k]] EXCEPT !.clean = FALSE, !.log = << >>]]

\* A user action is counted; the model follows a run for MaxActions of them.
userActs == actions < MaxActions /\ actions' = actions + 1

\* Lines 56-70: handleFiles with n image files.
HandleFiles ==
  /\ userActs
  /\ \E n \in 1..MaxFiles :
       /\ nextId + n - 1 <= MaxFiles
       /\ queue' = queue \o newItems(n)
       /\ nextId' = nextId + n
  /\ UNCHANGED <<settings, batches>>
  /\ UNCHANGED vecVars

\* Lines 83-90; the button is part of each item's row.
RemoveItem ==
  /\ userActs
  /\ \E i \in 1..Len(queue) : queue' = withoutItem(queue, queue[i].id)
  /\ batches' = disturbed(batches)
  /\ UNCHANGED <<settings, nextId>>
  /\ UNCHANGED vecVars

\* Lines 92-98; the button is shown while the queue is not empty.
ClearQueue ==
  /\ userActs
  /\ Len(queue) > 0
  /\ queue' = << >>
  /\ batches' = disturbed(batches)
  /\ UNCHANGED <<settings, nextId>>
  /\ UNCHANGED vecVars

\* What every settings handler does besides setSettings.  The controls are
\* shown while the queue is not empty (line 304 of the component).
changeSettings(st) ==
  /\ userActs
  /\ Len(queue) > 0
  /\ settings' = st
  /\ queue' = resetItems(queue)
  /\ batches' = disturbed(batches)
  /\ UNCHANGED nextId
  /\ UNCHANGED vecVars

\* Lines 211-224.
ToggleMode ==
  \E vector \in BOOLEAN :
    changeSettings([settings EXCEPT
      !.isVector = vector,
      !.format = IF vector THEN "image/svg+xml" ELSE "image/jpeg",
      !.colorCount = 16])

\* Lines 475-479; the raster controls are shown when not in vector mode.
SetFormat ==
  /\ ~settings.isVector
  /\ \E fmt \in RasterFormats : changeSettings([settings EXCEPT !.format = fmt])

\* Lines 502-505.
SetQuality ==
  /\ ~settings.isVector
  /\ \E q \in Qualities : changeSettings([settings EXCEPT !.quality = q])

\* Lines 534-537; the vector controls are shown in vector mode.
SetColorCount ==
  /\ settings.isVector
  /\ \E k \in ColorCounts : changeSettings([settings EXCEPT !.colorCount = k])

\* Lines 548-551.
ToggleAI ==
  changeSettings([settings EXCEPT !.useAIAnalysis = ~settings.useAIAnalysis])

\* Lines 569, 582-584: the Convert button is rendered and enabled.
convertEnabled ==
  /\ Len(queue) > 0
  /\ ~isAllComplete
  /\ ~(isProcessing \/ everyComplete)

\* Lines 100-124: the click runs processBatch up to its first await.
ProcessBatch ==
  /\ userActs
  /\ convertEnabled
  /\ LET todo == itemsToProcess(queue)
     IN IF Len(todo) = 0
          THEN UNCHANGED <<queue, batches>>
          ELSE /\ queue' = markProcessing(queue, todo)
               /\ batches' = Append(disturbed(batches),
                    [items |-> [k \in 1..Len(todo) |-> todo[k].id],
                     settings |-> settings, idx |-> 1, phase |-> "convert",
                     blob |-> NoResult, log |-> << >>, clean |-> TRUE])
  /\ UNCHANGED <<settings, nextId>>
  /\ UNCHANGED vecVars

\* Lines 117-149: processImageClientSide resolves.  With AI analysis on (in
\* the captured settings) the batch goes on to await the annotation;
\* otherwise the item is marked COMPLETE and the loop moves on.
ConversionResolves ==
  /\ \E b \in 1..Len(batches) :
       LET bt == batches[b]
           blob == blobOf(bt.items[bt.idx], bt.settings)
       IN /\ bt.phase = "convert"
          /\ IF bt.settings.useAIAnalysis
               THEN /\ batches' = [batches EXCEPT ![b] = [bt EXCEPT !.phase = "ai", !.blob = blob]]
                    /\ UNCHANGED queue
               ELSE /\ queue' = markComplete(queue, bt.items[bt.idx], resultOf(blob, NoAnnotation))
                    /\ batches' = settled(batches, b, afterComplete(bt))
  /\ UNCHANGED <<settings, nextId, actions>>
  /\ UNCHANGED vecVars

\* Lines 151-154: processImageClientSide rejects (lines 267, 353, 362, 368 of
\* imageProcessing.ts).
ConversionRejects ==
  /\ \E b \in 1..Len(batches) :
       LET bt == batches[b]
       IN /\ bt.phase = "convert"
          /\ queue' = markError(queue, bt.items[bt.idx])
          /\ batches' = settled(batches, b, afterReject(bt))
  /\ UNCHANGED <<settings, nextId, actions>>
  /\ UNCHANGED vecVars

\* What the annotation step leaves in aiDesc and aiTags: analyzeImage's answer
\* (geminiService.ts 51), its two fallbacks (11, 55), or the initial values
\* when blobToBase64 rejects (App 127-128, 136-138).
Annotations ==
  { [outcome |-> "answer", desc |-> "description", tags |-> <<"tag">>],
    [outcome |-> "missing key",
     desc |-> "AI Analysis unavailable (Missing Key)", tags |-> << >>],
    [outcome |-> "service error", desc |-> "Analysis failed", tags |-> << >>],
    [outcome |-> "encoding failure", desc |-> "", tags |-> << >>] }

\* Lines 130-149: the annotation step settles; the item is marked COMPLETE.
AnalysisSettles ==
  /\ \E b \in 1..Len(batches) : \E an \in Annotations :
       LET bt == batches[b]
       IN /\ bt.phase = "ai"
          /\ queue' = markComplete(queue, bt.items[bt.idx], resultOf(bt.blob, an))
          /\ batches' = settled(batches, b, afterComplete(bt))
  /\ UNCHANGED <<settings, nextId, actions>>
  /\ UNCHANGED vecVars

InitApp == VecIdle /\ AppIdle

NextApp ==
  \/ HandleFiles
  \/ RemoveItem
  \/ ClearQueue
  \/ ToggleMode
  \/ SetFormat
  \/ SetQuality
  \/ SetColorCount
  \/ ToggleAI
  \/ ProcessBatch
  \/ ConversionResolves
  \/ ConversionRejects
  \/ AnalysisSettles

SpecApp == InitApp /\ [][NextApp]_vars

\* --------------------------------------------- properties of the batches

StatusOf(id) ==
  LET at == { i \in 1..Len(queue) : queue[i].id = id }
  IN IF at = {} THEN "absent" ELSE queue[CHOOSE i \in at : TRUE].status

ResultOf(id) ==
  LET at == { i \in 1..Len(queue) : queue[i].id = id }
  IN IF at = {} THEN NoResult ELSE queue[CHOOSE i \in at : TRUE].result

\* The invocations of processBatch that await processImageClientSide.
InFlight == { b \in 1..Len(batches) : batches[b].phase = "convert" }

\* C9: whatever the user does and whenever conversions complete, at most one
\* item's conversion is in flight at any time.
C9_OneInFlight == Cardinality(InFlight) <= 1

\* C10: a batch whose loop has ended has been through every one of its items,
\* whatever failed; and if nothing but the batch itself (and the addition of
\* files) has written the queue since the batch began, it has written an
\* outcome for every item, in order, exactly the items whose conversion
\* failed are ERROR, every other item of the batch is COMPLETE with a result,
\* and none is PROCESSING.
C10_FailuresStayPerItem ==
  \A b \in 1..Len(batches) :
    LET bt == batches[b]
    IN bt.phase = "done" =>
         /\ bt.idx = Len(bt.items)
         /\ bt.clean =>
              /\ Len(bt.log) = Len(bt.items)
              /\ \A k \in 1..Len(bt.items) :
                   /\ bt.log[k].id = bt.items[k]
                   /\ IF bt.log[k].ok
                        THEN /\ StatusOf(bt.items[k]) = "COMPLETE"
                             /\ ResultOf(bt.items[k]) # NoResult
                        ELSE StatusOf(bt.items[k]) = "ERROR"

\* A batch of three items has ended, the second failed, the others did not.
C10_Witness ==
  \E b \in 1..Len(batches) :
    LET bt == batches[b]
    IN /\ bt.phase = "done" /\ bt.clean
       /\ Len(bt.items) = 3
       /\ bt.log[1].ok /\ ~bt.log[2].ok /\ bt.log[3].ok
       /\ Cardinality({ i \in 1..Len(queue) : queue[i].status = "ERROR" }) = 1
       /\ Cardinality({ i \in 1..Len(queue) : queue[i].status = "COMPLETE" }) = 2

\* The outcomes of the annotation step that are failures.
FailedAnnotation == {"missing key", "service error", "encoding failure"}

\* C11: an item whose annotation step failed is COMPLETE with its converted
\* result, an empty description and an empty tag list.
C11_FailedAnnotationLeavesEmpty ==
  \A i \in 1..Len(queue) :
    (queue[i].result # NoResult /\ queue[i].result.annotation \in FailedAnnotation)
      => /\ queue[i].status = "COMPLETE"
         /\ queue[i].result.blob # NoResult
         /\ queue[i].result.aiDescription = ""
         /\ queue[i].result.aiTags = << >>

\* ------------------------------------- properties of the clustering loop

\* The pixels the loop at line 61 samples (1-based positions in data).
Sampled == { i \in 1..Len(data) : (i - 1) % SampleStride = 0 }

\* The 1-based index of the lowest-index centroid of minimum distance from p.
NearestLowest(p, cents) ==
  CHOOSE j \in 1..Len(cents) :
    /\ \A m \in 1..Len(cents) :
         colorDistance(p, cents[j]) <= colorDistance(p, cents[m])
    /\ \A m \in 1..(j - 1) :
         colorDistance(p, cents[j]) < colorDistance(p, cents[m])

\* The sampled pixels assigned to centroid j.
AssignedTo(cents, j) == { i \in Sampled : NearestLowest(data[i], cents) = j }

RECURSIVE SumR(_)
SumR(S) == IF S = {} THEN 0 ELSE LET i == CHOOSE i \in S : TRUE IN data[i].r + SumR(S \ {i})
RECURSIVE SumG(_)
SumG(S) == IF S = {} THEN 0 ELSE LET i == CHOOSE i \in S : TRUE IN data[i].g + SumG(S \ {i})
RECURSIVE SumB(_)
SumB(S) == IF S = {} THEN 0 ELSE LET i == CHOOSE i \in S : TRUE IN data[i].b + SumB(S \ {i})

\* The channel-wise mean, rounded down, of the pixels at the positions in S.
MeanOf(S) ==
  [r |-> SumR(S) \div Cardinality(S),
   g |-> SumG(S) \div Cardinality(S),
   b |-> SumB(S) \div Cardinality(S)]

CentroidsAt(t) == centroidsAfter(data, width * height, colorCount, t)

\* C12: in each of the 5 iterations a centroid without assigned sampled
\* pixels keeps its value and every other centroid becomes the floored
\* channel-wise mean of the sampled pixels assigned to it, a pixel being
\* assigned to the lowest-index centroid of minimum distance; the palette is
\* what the fifth iteration leaves.
C12_IterationStep ==
  pc = "palette" =>
    /\ palette = CentroidsAt(Iterations)
    /\ \A t \in 0..(Iterations - 1) :
         LET before == CentroidsAt(t)
             after == CentroidsAt(t + 1)
         IN /\ Len(after) = Len(before)
            /\ \A j \in 1..Len(before) :
                 after[j] = IF AssignedTo(before, j) = {}
                              THEN before[j]
                              ELSE MeanOf(AssignedTo(before, j))

\* An iteration in which one centroid has no pixel and keeps its value while
\* another takes the mean of pixels of different colors and moves.
C12_Witness ==
  /\ pc = "palette"
  /\ \E t \in 0..(Iterations - 1) :
       LET before == CentroidsAt(t)
           after == CentroidsAt(t + 1)
       IN \E j, m \in 1..Len(before) :
            /\ AssignedTo(before, j) = {}
            /\ after[j] = before[j]
            /\ \E a, b \in AssignedTo(before, m) : data[a] # data[b]
            /\ after[m] # before[m]

\* ------------------------------------------ properties of the seed scan

\* The path data of contours m.. of layer L, concatenated (lines 214-240).
RECURSIVE PathsFrom(_, _)
PathsFrom(L, m) == IF m > Len(L) THEN << >> ELSE L[m].path \o PathsFrom(L, m + 1)

\* The in-grid cells that are neither case 0 nor case 15 for col.
BoundaryCells(col) ==
  { cell \in (0..(width - 2)) \X (0..(height - 2)) : ~FlatFor(cell[1], cell[2], col) }

\* The cells the contours of layer L have marked visited.
VisitedBy(L) == UNION { L[m].cells : m \in 1..Len(L) }

\* C13: a walk that ends on a segment miss affects only its own contour: the
\* contour is finalized with the points gathered (path data iff at least 3
\* points), its cells stay visited (no later contour is seeded in them), the
\* scan goes on (every boundary cell ends up visited, and the layer's path
\* data holds every contour's path, later ones included), and the remaining
\* colors are traced.
C13_MissIsLocal ==
  /\ \A col \in Traced :
       LET L == layers[col + 1]
       IN \A j \in 1..Len(L) :
            L[j].end = "miss" =>
              /\ Len(L[j].points) = Len(L[j].segs) + 1
              /\ (L[j].path # << >>) <=> (Len(L[j].points) >= 3)
              /\ \A m \in (j + 1)..Len(L) : L[m].seed \notin L[j].cells
              /\ BoundaryCells(col) \subseteq VisitedBy(L)
              /\ \A i \in PathElements :
                   svg[i].index = col => svg[i].d = PathsFrom(L, 1)
              /\ PathsFrom(L, 1) # << >> => \E i \in PathElements : svg[i].index = col
  /\ pc = "resolved" => Len(layers) = colorCount

\* A walk that ended on a miss with at least 3 points, followed by another
\* contour with path data in the same layer and by the tracing of a further
\* color.
C13_Witness ==
  \E col \in Traced :
    LET L == layers[col + 1]
    IN /\ col + 1 < Len(layers)
       /\ \E j, m \in 1..Len(L) :
            /\ j < m
            /\ L[j].end = "miss" /\ L[j].path # << >>
            /\ L[m].path # << >>

\* The position of a cell in the scan of lines 139-140.
ScanOrder(cell) == cell[2] * (width - 1) + cell[1]

\* The cells visited by the walks seeded before the scan reaches cell.
VisitedBefore(L, cell) ==
  UNION { L[m].cells : m \in { m \in 1..Len(L) : ScanOrder(L[m].seed) < ScanOrder(cell) } }

\* C14: within one layer the contours are seeded in scan order; a cell that
\* an earlier walk has traversed seeds no contour, every other boundary cell
\* seeds exactly one, and no cell seeds two.
C14_SeedsAreUnvisited ==
  \A col \in Traced :
    LET L == layers[col + 1]
    IN /\ \A j, m \in 1..Len(L) :
            j < m => /\ ScanOrder(L[j].seed) < ScanOrder(L[m].seed)
                     /\ L[m].seed \notin L[j].cells
       /\ \A m \in 1..Len(L) : L[m].seed \in BoundaryCells(col)
       /\ \A cell \in BoundaryCells(col) :
            Cardinality({ m \in 1..Len(L) : L[m].seed = cell })
              = IF cell \in VisitedBefore(L, cell) THEN 0 ELSE 1

\* A layer with two contours and a boundary cell that seeds none because an
\* earlier walk went through it.
C14_Witness ==
  \E col \in Traced :
    LET L == layers[col + 1]
    IN /\ Len(L) >= 2
       /\ \E cell \in BoundaryCells(col) :
            /\ cell \in VisitedBefore(L, cell)
            /\ \A m \in 1..Len(L) : L[m].seed # cell

\* ------------------------------------------- properties of the smoothing

\* A point (held doubled) and the midpoint of two points, in path coordinates
\* (multiplied by four).
AsPathPoint(a) == <<2 * a[1], 2 * a[2]>>
Midpoint(a, b) == <<a[1] + b[1], a[2] + b[2]>>

\* The control point and the endpoint of a Q command.
ControlOf(cmd) == <<cmd.args[1], cmd.args[2]>>
EndpointOf(cmd) == <<cmd.args[3], cmd.args[4]>>

\* C15: the path of a contour of n >= 3 points starts at the midpoint between
\* the last and the first point; its i-th curve has point i as control point
\* and the midpoint of point i and point (i + 1 mod n) as endpoint; so the
\* last curve ends where the path started.
C15_SmoothingGeometry ==
  \A col \in Traced : \A ct \in ContoursOf(col) :
    Len(ct.points) >= 3 =>
      LET n == Len(ct.points)
      IN /\ Len(ct.path) = n + 2
         /\ ct.path[1].op = "M"
         /\ ct.path[1].args = Midpoint(ct.points[n], ct.points[1])
         /\ \A i \in 1..n :
              /\ ct.path[i + 1].op = "Q"
              /\ ControlOf(ct.path[i + 1]) = AsPathPoint(ct.points[i])
              /\ EndpointOf(ct.path[i + 1])
                   = Midpoint(ct.points[i], ct.points[IF i = n THEN 1 ELSE i + 1])
         /\ EndpointOf(ct.path[n + 1]) = ct.path[1].args
         /\ ct.path[n + 2].op = "Z"

\* A smoothed contour whose last point is not its first, so that the start of
\* the path is a proper midpoint.
C15_Witness ==
  \E col \in Traced : \E ct \in ContoursOf(col) :
    /\ Len(ct.points) >= 3
    /\ ct.points[Len(ct.points)] # ct.points[1]
    /\ ct.path # << >>
    /\ ct.path[1].args # AsPathPoint(ct.points[1])

\* ---------------------------------------- properties of processBatch

\* The ids of the items that are IDLE or ERROR.
SelectedIds == { queue[i].id : i \in { i \in 1..Len(queue) : queue[i].status \in {"IDLE", "ERROR"} } }

\* What a press of Convert does to the queue and the batches.
SelectionDone ==
  IF SelectedIds = {}
    THEN queue' = queue /\ batches' = batches
    ELSE /\ Len(queue') = Len(queue)
         /\ \A i \in 1..Len(queue) :
              /\ queue'[i].id = queue[i].id
              /\ queue'[i].result = queue[i].result
              /\ queue'[i].status =
                   IF queue[i].status \in {"IDLE", "ERROR"}
                     THEN "PROCESSING" ELSE queue[i].status
         /\ Len(batches') > 0
         /\ LET nb == batches'[Len(batches')]
            IN /\ nb.phase = "convert" /\ nb.idx = 1
               /\ Len(nb.items) = Cardinality(SelectedIds)
               /\ { nb.items[k] : k \in 1..Len(nb.items) } = SelectedIds
               /\ \A i, j \in 1..Len(queue) : \A k, m \in 1..Len(nb.items) :
                    (queue[i].id = nb.items[k] /\ queue[j].id = nb.items[m] /\ i < j)
                      => k < m

\* The queue is written by a step that is no user action: by one of the
\* continuations of processBatch (conversion resolved or rejected, annotation
\* settled).
BatchWrites == actions' = actions /\ queue' # queue

\* A running invocation writes the queue: only the item it is at changes.
OnlyOwnItemWritten ==
  /\ Len(queue') = Len(queue)
  /\ \E b \in 1..Len(batches) :
       /\ batches[b].phase # "done"
       /\ \A i \in 1..Len(queue) :
            queue[i].id # batches[b].items[batches[b].idx] => queue'[i] = queue[i]

\* C16: a press of Convert selects exactly the items that are IDLE or ERROR
\* at that moment, in queue order, and marks them PROCESSING; every other
\* item, COMPLETE ones included, keeps its status and result; with nothing to
\* select the queue is left as it is; and each later write of the invocation
\* changes only the selected item it is at.
C16_SelectsIdleAndError ==
  [][ /\ ProcessBatch => SelectionDone
      /\ BatchWrites => OnlyOwnItemWritten ]_vars

\* Two files were added at once and converted, the first completed and the
\* second failed (it is the only way to be here after three user actions);
\* the third action, a press of Convert, has resubmitted the failed item
\* alone, and the completed one still has its result.
C16_Witness ==
  /\ actions = 3
  /\ Len(queue) = 2
  /\ queue[1].status = "COMPLETE" /\ queue[1].result # NoResult
  /\ queue[2].status = "PROCESSING"
  /\ Len(batches) = 1
  /\ batches[1].items = <<queue[2].id>>
  /\ batches[1].phase = "convert"

\* ------------------------------------ properties of the settings handlers

SettingsChange == ToggleMode \/ SetFormat \/ SetQuality \/ SetColorCount \/ ToggleAI

CurrentBlob(id) == blobOf(id, settings)

\* C18: whatever the interleaving of settings changes with a running batch,
\* a COMPLETE item holds a result produced with the settings now in effect
\* (format, quality, scale, vector mode, color count).
C18_CompleteMatchesSettings ==
  \A i \in 1..Len(queue) :
    queue[i].status = "COMPLETE" =>
      /\ queue[i].result # NoResult
      /\ queue[i].result.blob = CurrentBlob(queue[i].id)

\* ------------------------------------------------ properties of the walk

\* Cell (x, y) is a saddle for col: case 5 or case 10.
SaddleFor(x, y, col) ==
  squareIndex(colorIndices, width, height, x, y, col) \in {5, 10}

NoSaddle(col) ==
  \A x \in 0..(width - 2) : \A y \in 0..(height - 2) : ~SaddleFor(x, y, col)

\* C19: for a color without saddle cells every walk ends by closing its loop
\* or by stepping outside the cell grid, never on a segment miss and never in
\* a case 0 or case 15 cell.
C19_NoSaddleWalks ==
  \A col \in Traced :
    NoSaddle(col) =>
      \A ct \in ContoursOf(col) :
        /\ ct.end \in {"closed", "outside"}
        /\ ct.end = "closed" => EndClosed(ct)
        /\ ct.end = "outside" => EndOutside(ct)

\* A color without saddle cells and a walk for it that goes through four
\* cells and closes its loop.
C19_Witness ==
  \E col \in Traced :
    /\ NoSaddle(col)
    /\ \E ct \in ContoursOf(col) :
         ct.end = "closed" /\ Len(ct.segs) >= 4 /\ EndClosed(ct)

\* The number of cells of the grid.
CellCount == (width - 1) * (height - 1)

\* C20: no walk ends because the step budget ran out: every walk ends closed,
\* outside the grid, in a case 0 / case 15 cell or on a segment miss, with
\* fewer than width * height steps, and without taking any segment twice.
C20_BudgetNeverRunsOut ==
  \A col \in Traced : \A ct \in ContoursOf(col) :
    /\ ct.end \in {"closed", "outside", "flat", "miss"}
    /\ ~EndBudget(ct)
    /\ ct.steps < maxSteps(width, height)
    /\ \A i, j \in 1..Len(ct.segs) : i # j => ct.segs[i] # ct.segs[j]

\* A walk that went through every cell of a grid of at least four cells and
\* closed its loop with budget to spare.
C20_Witness ==
  \E col \in Traced : \E ct \in ContoursOf(col) :
    /\ CellCount >= 4
    /\ Len(ct.segs) = CellCount
    /\ ct.end = "closed"
    /\ ct.steps = CellCount - 1

\* The first point of a contour: the middle of the entry edge of the cell it
\* was seeded at (line 171).
StartPoint(ct) == getEdgePos(ct.seed[1], ct.seed[2], ct.entry)

\* C21: a walk that ends by loop closure recorded as its last point the point
\* it recorded first, the middle of the entry edge of the starting cell; it
\* went through n distinct cells, one step each, and recorded n + 1 points.
C21_ClosedLoopReturnsToStart ==
  \A col \in Traced : \A ct \in ContoursOf(col) :
    ct.end = "closed" =>
      /\ ct.points[1] = StartPoint(ct)
      /\ ct.points[Len(ct.points)] = ct.points[1]
      /\ Len(ct.segs) = Cardinality(ct.cells)
      /\ Len(ct.points) = Cardinality(ct.cells) + 1

\* A closed loop over four cells with five points, the fifth on the first.
C21_Witness ==
  \E col \in Traced : \E ct \in ContoursOf(col) :
    /\ ct.end = "closed"
    /\ Cardinality(ct.cells) = 4
    /\ Len(ct.points) = 5
    /\ ct.points[5] = StartPoint(ct)

\* The palette indices (as the code counts them, from 0) whose color is also
\* held by a lower index.
Shadowed == { c \in 0..(Len(palette) - 1) : \E b \in 0..(c - 1) : palette[b + 1] = palette[c + 1] }

\* The palette indices some pixel is labelled with.
LabelsUsed == { colorIndices[i] : i \in 1..Len(colorIndices) }

\* The loop indices c for which the document holds a path element.
PathIndices == { svg[i].index : i \in PathElements }

\* C22: a palette index whose color is held by a lower index too labels no
\* pixel, has no contour once it is traced, and has no path element in the
\* document.
C22_DuplicateColorsGetNothing ==
  \A c \in Shadowed :
    /\ c \notin LabelsUsed
    /\ c \in Traced => layers[c + 1] = << >>
    /\ c \notin PathIndices

\* A finished document for a palette in which index 2 repeats the color of
\* index 1: index 1 labels pixels and has a path element, index 2 has been
\* traced and has none.
C22_Witness ==
  /\ pc = "resolved"
  /\ Len(palette) = 3
  /\ palette[2] = palette[3]
  /\ 1 \in LabelsUsed
  /\ 1 \in PathIndices
  /\ 2 \in Traced
  /\ 2 \notin PathIndices

====
